---- MODULE Spec2Model ----
(***************************************************************************)
(* AI-Arbiter: the arbitration service (src/src/services.py), its two HTTP *)
(* routes (src/src/main.py), the pydantic models (src/src/models.py) and   *)
(* the agent dependencies and system prompt (src/src/agent.py).            *)
(*                                                                         *)
(* JSON values are records tagged by `kind`.  A dict is a record holding   *)
(* every key the code reads; a key the dict does not hold has the value    *)
(* Missing.  Python exceptions are records [exc, msg].  A confidence is an *)
(* integer number of tenths (10 stands for 1.0).                           *)
(***************************************************************************)
EXTENDS Integers, Sequences, FiniteSets, TLC

\* ---------------------------------------------------------------- bounds
\* Most evidence items one request carries, both sides together.
MaxEvidences == 2
\* Most partial outputs one scripted engine run streams.
MaxPartials == 2
MaxCalls == 2

\* ------------------------------------------------------------ JSON values
Missing == "<missing>"
PyNone == "<None>"
Absent == [kind |-> "absent"]
Null == [kind |-> "null"]
Str(s) == [kind |-> "str", v |-> s]
Dict(f) == [kind |-> "dict", f |-> f]
List(s) == [kind |-> "list", items |-> s]

\* Strings that parse as a version-4 UUID; every other string does not.
UUIDs == {"P1", "U1", "U2", "E1", "E2", "D1"}

\* A UUID4 field: the accepted spellings and the canonical text str() gives.
\* "P1", "U1"... are canonical; "{P1}" is the braced spelling of "P1", which
\* uuid.UUID accepts and str() normalises.
UUIDCanonical(s) == IF s = "{P1}" THEN "P1" ELSE s

IsUUID(s) == UUIDCanonical(s) \in UUIDs

\* Python truthiness of a JSON value (`not policy_data`, services.py:124).
IsEmptyDict(v) == v.kind = "dict" /\ \A k \in DOMAIN v.f : v.f[k] = Missing

\* A check that only catches the empty dict.
TruthyUnlessEmptyDict(v) == ~IsEmptyDict(v)

Truthy(v) ==
  CASE v.kind \in {"absent", "null"} -> FALSE
    [] v.kind = "str" -> v.v # ""
    [] v.kind = "list" -> v.items # <<>>
    [] v.kind = "dict" -> ~IsEmptyDict(v)
    [] OTHER -> TRUE

\* A datetime field.  "2025-01-01 00:00:00" and "2025-01-01T00:00:00" both
\* parse to the datetime whose isoformat() is "2025-01-01T00:00:00"; no
\* other string of the model parses; a missing key takes the default
\* factory, utcnow().
IsDatetime(s) == s \in {Missing, "2025-01-01 00:00:00", "2025-01-01T00:00:00"}

Datetime(s) ==
  CASE s = Missing -> "utcnow"
    [] s = "2025-01-01 00:00:00" -> "2025-01-01T00:00:00"
    [] OTHER -> s

\* ------------------------------------------------------------- exceptions
Raise(exc, msg) == [ok |-> FALSE, exc |-> exc, msg |-> msg]
Return(v) == [ok |-> TRUE, value |-> v]

\* ------------------------------------------------------- models.py: Policy
\* Policy(**policy_data): id and creator_id are UUID4, name is a required
\* str, description is optional, created_at defaults to now.
Policy(d) ==
  IF /\ IsUUID(d["id"]) /\ IsUUID(d["creator_id"]) /\ d["name"] # Missing
     /\ IsDatetime(d["created_at"])
  THEN Return([class |-> "Policy", id |-> UUIDCanonical(d["id"]),
               creator_id |-> UUIDCanonical(d["creator_id"]),
               name |-> d["name"],
               description |-> IF d["description"] = Missing THEN PyNone ELSE d["description"],
               created_at |-> Datetime(d["created_at"])])
  ELSE Raise("ValidationError", "validation error for Policy")

\* ----------------------------------------------------- models.py: Evidence
Evidence(d) ==
  IF IsUUID(d["id"]) /\ IsUUID(d["policy_id"]) /\ IsUUID(d["submitter_id"])
     /\ d["content"] # Missing /\ IsDatetime(d["created_at"])
  THEN Return([class |-> "Evidence", id |-> UUIDCanonical(d["id"]),
               policy_id |-> UUIDCanonical(d["policy_id"]),
               submitter_id |-> UUIDCanonical(d["submitter_id"]),
               content |-> d["content"],
               created_at |-> Datetime(d["created_at"])])
  ELSE Raise("ValidationError", "validation error for Evidence")

\* ------------------------------------------------- models.py: DecisionType
DecisionType ==
  {"APPROVE_OPPOSER", "REJECT_OPPOSER", "NEEDS_MORE_INFO",
   "REQUEST_OPPOSER_EVIDENCE", "REQUEST_DEFENDER_EVIDENCE"}

\* The enum with the value the test expects for NEEDS_MORE_INFO.
DecisionTypeValueClearify(member) ==
  CASE member = "APPROVE_OPPOSER" -> "approve_opposer"
    [] member = "REJECT_OPPOSER" -> "reject_opposer"
    [] member = "NEEDS_MORE_INFO" -> "clearify"
    [] member = "REQUEST_OPPOSER_EVIDENCE" -> "request_opposer_evidence"
    [] member = "REQUEST_DEFENDER_EVIDENCE" -> "request_defender_evidence"

DecisionTypeValue(member) ==
  CASE member = "APPROVE_OPPOSER" -> "approve_opposer"
    [] member = "REJECT_OPPOSER" -> "reject_opposer"
    [] member = "NEEDS_MORE_INFO" -> "needs_more_info"
    [] member = "REQUEST_OPPOSER_EVIDENCE" -> "request_opposer_evidence"
    [] member = "REQUEST_DEFENDER_EVIDENCE" -> "request_defender_evidence"

\* DecisionType(value): the member with that value, if there is one.
IsDecisionTypeValue(s) == \E m \in DecisionType : DecisionTypeValue(m) = s

DecisionTypeOf(s) == CHOOSE m \in DecisionType : DecisionTypeValue(m) = s

\* ------------------------------------------ models.py: ArbitrationDecision
\* The range check without its upper bound.
ConfidenceOkNoUpperBound(c) == Len(c) = 1 /\ c[1] >= 0

ConfidenceOk(c) == Len(c) = 1 /\ c[1] >= 0 /\ c[1] <= 10

\* ArbitrationDecision(**raw): what pydantic validation makes of one raw
\* output of the reasoning backend.  Keys the model does not declare (such
\* as "message") are ignored; reasoning defaults to None.
ArbitrationDecision(raw) ==
  IF /\ IsUUID(raw["id"]) /\ IsUUID(raw["policy_id"])
     /\ IsUUID(raw["opposer_id"]) /\ IsUUID(raw["defender_id"])
     /\ IsDecisionTypeValue(raw["decision_type"])
     /\ raw["decision"] # Missing
     /\ ConfidenceOk(raw["confidence"])
     /\ IsDatetime(raw["created_at"])
  THEN Return([class |-> "ArbitrationDecision",
               id |-> UUIDCanonical(raw["id"]),
               policy_id |-> UUIDCanonical(raw["policy_id"]),
               opposer_id |-> UUIDCanonical(raw["opposer_id"]),
               defender_id |-> UUIDCanonical(raw["defender_id"]),
               decision_type |-> DecisionTypeOf(raw["decision_type"]),
               decision |-> raw["decision"],
               confidence |-> raw["confidence"][1],
               reasoning |-> IF raw["reasoning"] = Missing THEN PyNone ELSE raw["reasoning"],
               created_at |-> Datetime(raw["created_at"])])
  ELSE Raise("ValidationError", "validation error for ArbitrationDecision")

\* ------------------------------------ services.py: _format_arbitration_decision
\* The attributes the dict display reads, in evaluation order.
FormatReads ==
  <<"id", "policy_id", "opposer_id", "defender_id", "decision_type",
    "decision", "message", "confidence", "reasoning", "created_at">>

HasAttr(obj, a) == a \in DOMAIN obj

FirstMissingAttr(obj) ==
  LET idx == {i \in 1..Len(FormatReads) : ~HasAttr(obj, FormatReads[i])}
  IN FormatReads[CHOOSE i \in idx : \A j \in idx : i <= j]

format_arbitration_decision(decision) ==
  IF \E i \in 1..Len(FormatReads) : ~HasAttr(decision, FormatReads[i])
  THEN Raise("AttributeError",
             "'ArbitrationDecision' object has no attribute '"
               \o FirstMissingAttr(decision) \o "'")
  ELSE Return([arbitration_result |->
                 [decision_id |-> decision.id,
                  policy_id |-> decision.policy_id,
                  opposer_id |-> decision.opposer_id,
                  defender_id |-> decision.defender_id,
                  decision_type |-> DecisionTypeValue(decision.decision_type),
                  decision |-> decision.decision,
                  message |-> decision.message,
                  confidence_score |-> decision.confidence,
                  reasoning |-> decision.reasoning,
                  created_at |-> decision.created_at],
               metadata |->
                 [processing_completed |-> TRUE,
                  agent_version |-> "1.0.0",
                  service_version |-> "1.0.0"]])

\* ------------------------------------------- agent.py: ArbiterDependency
\* The dataclass __init__: policy, opposer_evidences, defender_evidences and
\* context are all fields without a default, so each is a required argument.
\* kwargs is the record of keyword arguments of the call.
ArbiterDependencyFields == <<"policy", "opposer_evidences", "defender_evidences", "context">>

ArbiterDependency(kwargs) ==
  LET missing == {i \in 1..Len(ArbiterDependencyFields) :
                    ArbiterDependencyFields[i] \notin DOMAIN kwargs}
  IN IF missing # {}
     THEN Raise("TypeError",
                "ArbiterDependency.__init__() missing required argument: '"
                  \o ArbiterDependencyFields[CHOOSE i \in missing : \A j \in missing : i <= j]
                  \o "'")
     ELSE Return([class |-> "ArbiterDependency"] @@ kwargs)

\* ------------------------------------------- agent.py: get_system_prompt
\* The sections of the prompt, in the order of the f-string; reading
\* ctx.deps.context.messages fails when context is None.  A context is
\* [kind |-> "none"] or [kind |-> "RunContext", messages |-> a sequence].
get_system_prompt(deps) ==
  IF deps.context.kind = "none"
  THEN Raise("AttributeError", "'NoneType' object has no attribute 'messages'")
  ELSE Return(<<[section |-> "rubric"],
                [section |-> "policy", body |-> deps.policy],
                [section |-> "defender_evidence", body |-> deps.defender_evidences],
                [section |-> "opposer_evidence", body |-> deps.opposer_evidences],
                [section |-> "context", body |-> deps.context.messages]>>)

\* ---------------------------- services.py: _prepare_agent_dependencies
\* request_data.get(key): Absent when the dict does not hold the key.
Get(request_data, key) == request_data.f[key]

\* The loop of lines 136-140 (and 145-149): a dict element becomes an
\* Evidence, any other element is appended as it is; the first element that
\* fails validation ends the loop with its exception.
RECURSIVE ConvertEvidences(_)
ConvertEvidences(items) ==
  IF items = <<>> THEN Return(<<>>)
  ELSE LET head == IF Head(items).kind = "dict"
                   THEN Evidence(Head(items).f)
                   ELSE Return(Head(items))
       IN IF ~head.ok THEN head
          ELSE LET rest == ConvertEvidences(Tail(items))
               IN IF ~rest.ok THEN rest ELSE Return(<<head.value>> \o rest.value)

\* One evidence field of the request: missing key -> the default [], JSON
\* null -> iterating None raises.
EvidenceList(field) ==
  CASE field.kind = "absent" -> Return(<<>>)
    [] field.kind = "null" -> Raise("TypeError", "'NoneType' object is not iterable")
    [] OTHER -> ConvertEvidences(field.items)

\* Lines 122-149: the keyword arguments built for ArbiterDependency, or the
\* exception raised before the call.
DependencyArgs(request_data) ==
  IF request_data.kind # "dict"
  THEN Raise("AttributeError", "'list' object has no attribute 'get'")
  ELSE
  LET policy_data == Get(request_data, "policy")
  IN IF ~Truthy(policy_data)
     THEN Raise("ValueError", "Policy data is required for arbitration")
     ELSE
     LET policy == IF policy_data.kind = "dict" THEN Policy(policy_data.f)
                   ELSE Return(policy_data)
     IN IF ~policy.ok THEN policy
        ELSE
        LET opposer_evidences == EvidenceList(Get(request_data, "opposer_evidences"))
        IN IF ~opposer_evidences.ok THEN opposer_evidences
           ELSE
           LET defender_evidences == EvidenceList(Get(request_data, "defender_evidences"))
           IN IF ~defender_evidences.ok THEN defender_evidences
              ELSE Return([policy |-> policy.value,
                           opposer_evidences |-> opposer_evidences.value,
                           defender_evidences |-> defender_evidences.value])

\* Lines 151-159: the ArbiterDependency call and the debug line, which reads
\* policy.id.
prepare_agent_dependencies(request_data) ==
  LET Construct(args) ==
        IF ~args.ok THEN args
        ELSE LET Debug(agent_deps) ==
                   IF ~agent_deps.ok THEN agent_deps
                   ELSE IF ~HasAttr(args.value.policy, "id")
                        THEN Raise("AttributeError", "object has no attribute 'id'")
                        ELSE agent_deps
             IN Debug(ArbiterDependency(args.value))
  IN Construct(DependencyArgs(request_data))

\* request_data.get("user_query", "")
UserQuery(request_data) ==
  IF Get(request_data, "user_query").kind = "str"
  THEN Get(request_data, "user_query").v ELSE ""

\* --------------------------------------------------- agent.py: arbiter_agent
\* One agent run: the system prompt is built from the dependencies, the
\* reasoning backend answers or fails, and its answer is validated as the
\* output_type, ArbitrationDecision.  backend is the backend's behaviour in
\* this run: [kind |-> "error"] or [kind |-> "output", raw |-> a raw output].
agent_run(user_query, deps, backend) ==
  LET Request(prompt) ==
        IF ~prompt.ok THEN prompt
        ELSE IF backend.kind = "error"
             THEN Raise("ModelHTTPError", "reasoning backend failed")
             ELSE LET Validated(output) ==
                        IF ~output.ok
                        THEN Raise("UnexpectedModelBehavior", "output validation failed")
                        ELSE output
                  IN Validated(ArbitrationDecision(backend.raw))
  IN Request(get_system_prompt(deps))

\* ------------------------------------------- services.py: _call_agent
call_agent(user_query, agent_deps, backend) == agent_run(user_query, agent_deps, backend)

\* ------------------------------------ services.py: process_arbitration
\* The result carries agent_runs, the number of agent.run calls made.
process_arbitration(initialized, request_data, backend) ==
  IF ~initialized
  THEN [result |-> Raise("RuntimeError", "Service not initialized"), agent_runs |-> 0]
  ELSE LET Call(agent_deps) ==
             IF ~agent_deps.ok THEN [result |-> agent_deps, agent_runs |-> 0]
             ELSE LET FormatResult(decision) ==
                        IF ~decision.ok THEN [result |-> decision, agent_runs |-> 1]
                        ELSE [result |-> format_arbitration_decision(decision.value),
                              agent_runs |-> 1]
                  IN FormatResult(call_agent(UserQuery(request_data),
                                             agent_deps.value, backend))
       IN Call(prepare_agent_dependencies(request_data))

\* ------------------------------------------- services.py: validate_policy
\* The try block: a dict validates when Policy(**policy_data) constructs, a
\* Policy instance validates, anything else does not.
validate_policy_try(policy_data) ==
  IF policy_data.kind = "dict"
  THEN LET Constructed(policy) == IF policy.ok THEN Return(TRUE) ELSE policy
       IN Constructed(Policy(policy_data.f))
  ELSE IF policy_data.kind = "Policy" THEN Return(TRUE)
  ELSE Return(FALSE)

\* The method without its except clause.
validate_policy_unguarded(policy_data) == validate_policy_try(policy_data)

\* `except Exception` turns whatever the try block raised into False.
validate_policy(policy_data) ==
  LET Except(r) == IF r.ok THEN r ELSE Return(FALSE)
  IN Except(validate_policy_try(policy_data))

\* ================================================================ inputs
PolicyOf(id, creator_id, name, description, created_at) ==
  [id |-> id, creator_id |-> creator_id, name |-> name, description |-> description,
   created_at |-> created_at]

MinimalPolicy == PolicyOf("P1", "U1", "Remote Work Policy", Missing, Missing)

PolicyDicts ==
  {PolicyOf(Missing, Missing, Missing, Missing, Missing),
   MinimalPolicy,
   PolicyOf("{P1}", "U1", "Remote Work Policy", "All staff work remotely",
            "2025-01-01 00:00:00"),
   PolicyOf("not-a-uuid", "U1", "Remote Work Policy", Missing, Missing),
   PolicyOf("P1", "U1", Missing, Missing, Missing),
   PolicyOf("P1", "U1", "Remote Work Policy", Missing, "yesterday")}

PolicyInputs ==
  {Absent, Null, Str(""), Str("Remote Work Policy"), List(<<>>)}
    \cup {Dict(f) : f \in PolicyDicts}

EvidenceA ==
  [id |-> "E1", policy_id |-> "P1", submitter_id |-> "U1", content |-> "A",
   created_at |-> "2025-01-01 00:00:00"]
EvidenceB ==
  [id |-> "E2", policy_id |-> "P1", submitter_id |-> "U2", content |-> "B",
   created_at |-> Missing]
EvidenceBad ==
  [id |-> "not-a-uuid", policy_id |-> "P1", submitter_id |-> "U1", content |-> "C",
   created_at |-> Missing]

EvidenceItems == {Dict(EvidenceA), Dict(EvidenceB), Dict(EvidenceBad), Str("just text")}

SeqsUpTo(S, n) == UNION {[1..k -> S] : k \in 0..n}

EvidenceInputs(n) == {Absent, Null} \cup {List(s) : s \in SeqsUpTo(EvidenceItems, n)}

Size(field) == IF field.kind = "list" THEN Len(field.items) ELSE 0

\* The JSON objects a request body can be.
RequestDicts ==
  {Dict([policy |-> p, opposer_evidences |-> o, defender_evidences |-> d, user_query |-> q]) :
     p \in PolicyInputs,
     o \in EvidenceInputs(MaxEvidences),
     d \in EvidenceInputs(MaxEvidences),
     q \in {Absent, Str("enforce the policy")}}

\* A body is text that is not JSON, a JSON array, or a JSON object.
Bodies ==
  {[kind |-> "invalid"], List(<<>>)}
    \cup {b \in RequestDicts :
            Size(b.f.opposer_evidences) + Size(b.f.defender_evidences) <= MaxEvidences}

\* The request of test_minimal_request.
MinimalRequest ==
  Dict([policy |-> Dict(MinimalPolicy),
        opposer_evidences |-> List(<<>>),
        defender_evidences |-> List(<<>>),
        user_query |-> Absent])

\* Raw outputs of the reasoning backend that the service runs draw from.
RawDecision(dt, c) ==
  [id |-> "D1", policy_id |-> "P1", opposer_id |-> "U1", defender_id |-> "U2",
   decision_type |-> dt, decision |-> "verdict", confidence |-> c,
   reasoning |-> "because", message |-> Missing, created_at |-> Missing]

Backends ==
  {[kind |-> "error"]}
    \cup {[kind |-> "output", raw |-> RawDecision(dt, c)] :
            dt \in {"approve_opposer", "needs_more_info"}, c \in {<<7>>, <<12>>}}

\* What one streamed engine run does: the partial outputs stream_output()
\* yields, each an ArbitrationDecision, and whether the run then ends
\* normally or raises.
PartialOutputs ==
  {ArbitrationDecision(RawDecision(dt, <<7>>)).value :
     dt \in {"approve_opposer", "needs_more_info"}}

Scripts ==
  [partials : SeqsUpTo(PartialOutputs, MaxPartials), ending : {"ok", "error"}]

\* ================================================================= state
VARIABLES
  is_initialized,  \* ArbiterService.is_initialized
  request,         \* the HTTP call being served: its route and body
  response,        \* the HTTP response of that call
  stream,          \* where generate_stream() is suspended, and its locals
  frames,          \* the chunks the streaming response has sent, in order
  agent_runs,      \* agent.run / agent.run_stream calls made for the call
  deps_args,       \* the arguments _prepare_agent_dependencies built
  backend_raw,     \* a raw output of the reasoning backend
  decision,        \* ArbitrationDecision(**backend_raw)
  formatted,       \* _format_arbitration_decision(decision)
  ctx_deps,        \* the ctx.deps get_system_prompt is called with
  system_prompt,   \* get_system_prompt(ctx)
  calls,           \* the HTTP calls being served at the same time, by slot
  validation       \* the last validate_policy call: its argument and result

vars ==
  <<is_initialized, request, response, stream, frames, agent_runs, deps_args,
    backend_raw, decision, formatted, ctx_deps, system_prompt, calls, validation>>

service_vars == <<is_initialized, request, response, stream, frames, agent_runs, deps_args>>
decision_vars == <<backend_raw, decision, formatted>>
prompt_vars == <<ctx_deps, system_prompt>>

NoRequest == [route |-> "none", body |-> [kind |-> "none"]]
NoResponse == [status |-> 0, content |-> [kind |-> "none"]]
NotCalled == [ok |-> FALSE, exc |-> "none", msg |-> "not called"]
Unbound == [bound |-> FALSE]
Bound(v) == [bound |-> TRUE, value |-> v]
NoStream == [pos |-> "none", partials |-> <<>>, ending |-> "ok", formatted_result |-> Unbound]

\* --------------------------------------------------------- main.py: routes
\* An HTTPException that always carries 400.
HTTPExceptionBadRequest(status_code, detail) == [status_code |-> 400, detail |-> detail]

HTTPException(status_code, detail) == [status_code |-> status_code, detail |-> detail]

\* http_exception_handler: the JSONResponse made from an HTTPException.
http_exception_handler(exc) ==
  [status |-> exc.status_code,
   content |-> [detail |-> exc.detail,
                error_code |-> "HTTP_" \o ToString(exc.status_code),
                timestamp |-> "strftime"]]

\* arbitrate_query: the response of POST /arbitrate.
arbitrate_query(initialized, body, backend) ==
  IF body.kind = "invalid"
  THEN [response |-> http_exception_handler(
                       HTTPException(500, "Arbitration processing failed")),
        agent_runs |-> 0]
  ELSE LET Answer(r) ==
             [response |->
                IF r.result.ok
                THEN [status |-> 200,
                      content |-> [status |-> "success", result |-> r.result.value]]
                ELSE http_exception_handler(
                       HTTPException(500, "Arbitration processing failed")),
              agent_runs |-> r.agent_runs]
       IN Answer(process_arbitration(initialized, body, backend))

\* ------------------------------------------------------------ SSE chunks
\* A chunk is the text before the JSON and the JSON value.
DataFrame(json) == [prefix |-> "data: ", json |-> json]

\* services.py:101
PartialFrame(formatted_result) ==
  [prefix |-> "'type': 'partial', data: ", json |-> formatted_result]

\* services.py:104
CompleteFrame(formatted_result) ==
  DataFrame([type |-> "complete", message |-> "done", data |-> formatted_result])

\* The error chunk written the way line 101 writes a partial.
ServiceErrorFrameNoDataPrefix(e) ==
  [prefix |-> "'type': 'error', data: ", json |-> [message |-> e.msg]]

\* services.py:108
ServiceErrorFrame(e) == DataFrame([type |-> "error", message |-> e.msg])

\* main.py:128-133
WrapperErrorFrame(e) ==
  DataFrame([type |-> "error", message |-> e.msg, timestamp |-> "strftime"])

\* The loop keeping the first formatted result instead of the latest.
StreamLoopKeepsFirst(partials, ending, formatted_result) ==
  IF partials # <<>>
  THEN LET Yield(f) ==
             IF ~f.ok
             THEN [frame |-> ServiceErrorFrame(f), pos |-> "error",
                   partials |-> <<>>, formatted_result |-> formatted_result]
             ELSE [frame |-> PartialFrame(f.value), pos |-> "partial",
                   partials |-> Tail(partials),
                   formatted_result |-> IF formatted_result.bound THEN formatted_result
                                        ELSE Bound(f.value)]
       IN Yield(format_arbitration_decision(Head(partials)))
  ELSE IF ending = "error"
       THEN [frame |-> ServiceErrorFrame(Raise("ModelHTTPError", "reasoning backend failed")),
             pos |-> "error", partials |-> <<>>, formatted_result |-> formatted_result]
       ELSE IF ~formatted_result.bound
            THEN [frame |-> ServiceErrorFrame(
                              Raise("UnboundLocalError",
                                    "local variable 'formatted_result' referenced before assignment")),
                  pos |-> "error", partials |-> <<>>, formatted_result |-> formatted_result]
            ELSE [frame |-> CompleteFrame(formatted_result.value), pos |-> "complete",
                  partials |-> <<>>, formatted_result |-> formatted_result]

\* ------------------------- services.py: process_arbitration_stream, the loop
\* From the head of `async for` to the next yield: the chunk yielded and
\* the locals the generator is suspended with.
StreamLoop(partials, ending, formatted_result) ==
  IF partials # <<>>
  THEN LET Yield(f) ==
             IF ~f.ok
             THEN [frame |-> ServiceErrorFrame(f), pos |-> "error",
                   partials |-> <<>>, formatted_result |-> formatted_result]
             ELSE [frame |-> PartialFrame(f.value), pos |-> "partial",
                   partials |-> Tail(partials), formatted_result |-> Bound(f.value)]
       IN Yield(format_arbitration_decision(Head(partials)))
  ELSE IF ending = "error"
       THEN [frame |-> ServiceErrorFrame(Raise("ModelHTTPError", "reasoning backend failed")),
             pos |-> "error", partials |-> <<>>, formatted_result |-> formatted_result]
       ELSE IF ~formatted_result.bound
            THEN [frame |-> ServiceErrorFrame(
                              Raise("UnboundLocalError",
                                    "local variable 'formatted_result' referenced before assignment")),
                  pos |-> "error", partials |-> <<>>, formatted_result |-> formatted_result]
            ELSE [frame |-> CompleteFrame(formatted_result.value), pos |-> "complete",
                  partials |-> <<>>, formatted_result |-> formatted_result]

\* process_arbitration_stream without its is_initialized check.
StreamFirstUnchecked(initialized, request_data, script) ==
  LET RunStream(agent_deps) ==
        IF ~agent_deps.ok
        THEN [frame |-> ServiceErrorFrame(agent_deps), pos |-> "error",
              partials |-> <<>>, formatted_result |-> Unbound,
              agent_runs |-> 0, prepared |-> TRUE]
        ELSE LET Request(prompt) ==
                   IF ~prompt.ok
                   THEN [frame |-> ServiceErrorFrame(prompt), pos |-> "error",
                         partials |-> <<>>, formatted_result |-> Unbound,
                         agent_runs |-> 1, prepared |-> TRUE]
                   ELSE StreamLoop(script.partials, script.ending, Unbound)
                          @@ [agent_runs |-> 1, prepared |-> TRUE]
             IN Request(get_system_prompt(agent_deps.value))
  IN RunStream(prepare_agent_dependencies(request_data))

\* The first __anext__ of generate_stream(): process_arbitration_stream runs
\* from its first line to its first yield.
StreamFirst(initialized, request_data, script) ==
  IF ~initialized
  THEN [frame |-> WrapperErrorFrame(Raise("RuntimeError", "Service not initialized")),
        pos |-> "wrapper_error", partials |-> <<>>, formatted_result |-> Unbound,
        agent_runs |-> 0, prepared |-> FALSE]
  ELSE LET RunStream(agent_deps) ==
             IF ~agent_deps.ok
             THEN [frame |-> ServiceErrorFrame(agent_deps), pos |-> "error",
                   partials |-> <<>>, formatted_result |-> Unbound,
                   agent_runs |-> 0, prepared |-> TRUE]
             ELSE LET Request(prompt) ==
                        IF ~prompt.ok
                        THEN [frame |-> ServiceErrorFrame(prompt), pos |-> "error",
                              partials |-> <<>>, formatted_result |-> Unbound,
                              agent_runs |-> 1, prepared |-> TRUE]
                        ELSE StreamLoop(script.partials, script.ending, Unbound)
                               @@ [agent_runs |-> 1, prepared |-> TRUE]
                  IN Request(get_system_prompt(agent_deps.value))
       IN RunStream(prepare_agent_dependencies(request_data))

\* =============================================================== actions
\* No HTTP call is being served.
Idle == request = NoRequest

\* main.py: startup_event -> ArbiterService.initialize
Startup ==
  /\ is_initialized' = TRUE
  /\ UNCHANGED <<request, response, stream, frames, agent_runs, deps_args, decision_vars, prompt_vars, calls, validation>>

\* main.py: shutdown_event -> ArbiterService.cleanup
Shutdown ==
  /\ is_initialized' = FALSE
  /\ UNCHANGED <<request, response, stream, frames, agent_runs, deps_args, decision_vars, prompt_vars, calls, validation>>

\* The route marking the service uninitialized when a call fails.
ArbitrateMarksUninitialized(body, backend) ==
  /\ Idle
  /\ \E r \in {arbitrate_query(is_initialized, body, backend)} :
       /\ response' = r.response
       /\ agent_runs' = r.agent_runs
  /\ request' = [route |-> "/arbitrate", body |-> body]
  /\ deps_args' = IF is_initialized /\ body.kind # "invalid"
                  THEN DependencyArgs(body) ELSE NotCalled
  /\ stream' = NoStream
  /\ frames' = <<>>
  /\ is_initialized' =
       (is_initialized /\ arbitrate_query(is_initialized, body, backend).response.status = 200)
  /\ UNCHANGED <<decision_vars, prompt_vars, calls, validation>>

\* POST /arbitrate with this body, the backend behaving as `backend`.
Arbitrate(body, backend) ==
  /\ Idle
  /\ \E r \in {arbitrate_query(is_initialized, body, backend)} :
       /\ response' = r.response
       /\ agent_runs' = r.agent_runs
  /\ request' = [route |-> "/arbitrate", body |-> body]
  /\ deps_args' = IF is_initialized /\ body.kind # "invalid"
                  THEN DependencyArgs(body) ELSE NotCalled
  /\ stream' = NoStream
  /\ frames' = <<>>
  /\ UNCHANGED <<is_initialized, decision_vars, prompt_vars, calls, validation>>

\* POST /arbitrate/stream with this body: arbitrate_query_stream returns the
\* StreamingResponse; generate_stream() has not run yet.
ArbitrateStream(body) ==
  /\ Idle
  /\ request' = [route |-> "/arbitrate/stream", body |-> body]
  /\ IF body.kind = "invalid"
     THEN /\ response' = http_exception_handler(
                           HTTPException(500, "Arbitration streaming failed"))
          /\ stream' = NoStream
     ELSE /\ response' = [status |-> 200, content |-> [media_type |-> "text/event-stream"]]
          /\ stream' = [NoStream EXCEPT !.pos = "created"]
  /\ frames' = <<>>
  /\ agent_runs' = 0
  /\ deps_args' = NotCalled
  /\ UNCHANGED <<is_initialized, decision_vars, prompt_vars, calls, validation>>

\* The response pulls the next chunk of generate_stream(): the generator
\* runs to its next yield, or to its end.  `script` is what the engine run
\* does if this step starts one.
StreamNext(script) ==
  /\ stream.pos \notin {"none", "closed"}
  /\ CASE stream.pos = "created" ->
            \E s \in {StreamFirst(is_initialized, request.body, script)} :
               /\ frames' = Append(frames, s.frame)
               /\ stream' = [pos |-> s.pos, partials |-> s.partials,
                             ending |-> script.ending,
                             formatted_result |-> s.formatted_result]
               /\ agent_runs' = s.agent_runs
               /\ deps_args' = IF s.prepared THEN DependencyArgs(request.body)
                               ELSE NotCalled
       [] stream.pos = "partial" ->
            \E s \in {StreamLoop(stream.partials, stream.ending, stream.formatted_result)} :
               /\ frames' = Append(frames, s.frame)
               /\ stream' = [stream EXCEPT !.pos = s.pos, !.partials = s.partials,
                                           !.formatted_result = s.formatted_result]
               /\ UNCHANGED <<agent_runs, deps_args>>
       [] OTHER ->
            /\ stream' = [stream EXCEPT !.pos = "closed"]
            /\ UNCHANGED <<frames, agent_runs, deps_args>>
  /\ UNCHANGED <<is_initialized, request, response, decision_vars, prompt_vars, calls, validation>>

\* The call is over: its response is sent and its stream, if any, is
\* closed.  Everything the call held is dropped (the route's locals; the
\* service keeps nothing of a call but is_initialized).
Respond ==
  /\ request # NoRequest
  /\ response # NoResponse
  /\ stream.pos \in {"none", "closed"}
  /\ request' = NoRequest
  /\ response' = NoResponse
  /\ stream' = NoStream
  /\ frames' = <<>>
  /\ agent_runs' = 0
  /\ deps_args' = NotCalled
  /\ UNCHANGED <<is_initialized, decision_vars, prompt_vars, calls, validation>>

\* The calls a client can make and the pull the response makes, over every
\* body, backend behaviour and engine script (a script is only read by the
\* pull that starts the generator).
ArbitrateCall == Idle /\ \E body \in Bodies, backend \in Backends : Arbitrate(body, backend)

ArbitrateStreamCall == Idle /\ \E body \in Bodies : ArbitrateStream(body)

StreamPull ==
  /\ ~Idle
  /\ \E script \in (IF stream.pos = "created" THEN Scripts
                    ELSE {[partials |-> <<>>, ending |-> stream.ending]}) :
       StreamNext(script)

Init ==
  /\ is_initialized = FALSE
  /\ request = NoRequest
  /\ response = NoResponse
  /\ stream = NoStream
  /\ frames = <<>>
  /\ agent_runs = 0
  /\ deps_args = NotCalled
  /\ backend_raw = [kind |-> "none"]
  /\ decision = NotCalled
  /\ formatted = NotCalled
  /\ ctx_deps = NotCalled
  /\ system_prompt = NotCalled
  /\ calls = <<>>
  /\ validation = NotCalled

Next ==
  \/ Startup
  \/ Shutdown
  \/ ArbitrateCall
  \/ ArbitrateStreamCall
  \/ StreamPull
  \/ Respond

Spec == Init /\ [][Next]_vars

\* ======================================= the decision model and the formatter
\* Raw outputs of the reasoning backend, well-formed and not.
RawOutputs ==
  [id : {"D1", "not-a-uuid"},
   policy_id : {"P1", "{P1}"},
   opposer_id : {"U1", Missing},
   defender_id : {"U2"},
   decision_type : {"approve_opposer", "reject_opposer", "needs_more_info",
                    "request_opposer_evidence", "request_defender_evidence",
                    "clearify", Missing},
   decision : {"verdict", Missing},
   confidence : {<<>>, <<-1>>, <<0>>, <<5>>, <<10>>, <<11>>},
   reasoning : {"because", Missing},
   message : {"note", Missing},
   created_at : {"2025-01-01 00:00:00", "yesterday", Missing}]

\* The agent validates the backend's output as its output_type.
Validate ==
  /\ decision = NotCalled
  /\ decision' = ArbitrationDecision(backend_raw)
  /\ UNCHANGED <<backend_raw, formatted, service_vars, prompt_vars, calls, validation>>

\* The service formats the decision the agent returned.
Format ==
  /\ decision.ok
  /\ formatted = NotCalled
  /\ formatted' = format_arbitration_decision(decision.value)
  /\ UNCHANGED <<backend_raw, decision, service_vars, prompt_vars, calls, validation>>

InitDecision ==
  /\ is_initialized = FALSE
  /\ request = NoRequest
  /\ response = NoResponse
  /\ stream = NoStream
  /\ frames = <<>>
  /\ agent_runs = 0
  /\ deps_args = NotCalled
  /\ backend_raw \in RawOutputs
  /\ decision = NotCalled
  /\ formatted = NotCalled
  /\ ctx_deps = NotCalled
  /\ system_prompt = NotCalled
  /\ calls = <<>>
  /\ validation = NotCalled

NextDecision == Validate \/ Format

SpecDecision == InitDecision /\ [][NextDecision]_vars

\* ------------------------------------------ get_system_prompt on its own
\* ArbiterDependency.context is Optional[RunContext]: None, or a RunContext
\* whose messages are the conversation so far.
RunContexts ==
  {[kind |-> "none"],
   [kind |-> "RunContext", messages |-> <<>>],
   [kind |-> "RunContext", messages |-> <<"earlier question">>]}

\* The Evidence objects of the model's two well-formed submissions.
EvidenceObjects == {Evidence(EvidenceA).value, Evidence(EvidenceB).value}

\* ArbiterDependency objects: the dataclass built with all four fields.
DependencyObjects ==
  {ArbiterDependency([policy |-> Policy(p).value,
                      opposer_evidences |-> o,
                      defender_evidences |-> d,
                      context |-> c]) :
     p \in {f \in PolicyDicts : Policy(f).ok},
     o \in SeqsUpTo(EvidenceObjects, MaxEvidences),
     d \in SeqsUpTo(EvidenceObjects, MaxEvidences),
     c \in RunContexts}

\* The agent builds its system prompt from ctx.deps.
SystemPrompt ==
  /\ ctx_deps.ok
  /\ system_prompt = NotCalled
  /\ system_prompt' = get_system_prompt(ctx_deps.value)
  /\ UNCHANGED <<ctx_deps, calls, validation, service_vars, decision_vars>>

InitPrompt ==
  /\ is_initialized = FALSE
  /\ request = NoRequest
  /\ response = NoResponse
  /\ stream = NoStream
  /\ frames = <<>>
  /\ agent_runs = 0
  /\ deps_args = NotCalled
  /\ backend_raw = [kind |-> "none"]
  /\ decision = NotCalled
  /\ formatted = NotCalled
  /\ ctx_deps \in DependencyObjects
  /\ system_prompt = NotCalled
  /\ calls = <<>>
  /\ validation = NotCalled

NextPrompt == SystemPrompt

SpecPrompt == InitPrompt /\ [][NextPrompt]_vars

\* ------------------------- the chunks of lines 101 and 104 on their own
\* Objects that carry every attribute the formatter reads: a validated
\* decision with a message attribute set on it.
FormatterInputs ==
  {ArbitrationDecision([RawDecision(dt, c) EXCEPT !.reasoning = r]).value
     @@ [message |-> "note"] :
     dt \in {DecisionTypeValue(m) : m \in DecisionType},
     c \in {<<0>>, <<5>>, <<10>>},
     r \in {"because", Missing}}

\* The values the formatter's return statement builds.
FormattedResults == {format_arbitration_decision(d) : d \in FormatterInputs}

\* services.py:100-101: the chunk yielded for one partial output.
YieldPartial ==
  /\ formatted.ok
  /\ Len(frames) < MaxPartials
  /\ \A i \in 1..Len(frames) : frames[i] # CompleteFrame(formatted.value)
  /\ frames' = Append(frames, PartialFrame(formatted.value))
  /\ UNCHANGED <<is_initialized, request, response, stream, agent_runs, deps_args,
                 decision_vars, prompt_vars, calls, validation>>

\* services.py:104: the chunk yielded after the last partial output.
YieldComplete ==
  /\ formatted.ok
  /\ frames # <<>>
  /\ \A i \in 1..Len(frames) : frames[i] # CompleteFrame(formatted.value)
  /\ frames' = Append(frames, CompleteFrame(formatted.value))
  /\ UNCHANGED <<is_initialized, request, response, stream, agent_runs, deps_args,
                 decision_vars, prompt_vars, calls, validation>>

InitFrames ==
  /\ is_initialized = FALSE
  /\ request = NoRequest
  /\ response = NoResponse
  /\ stream = NoStream
  /\ frames = <<>>
  /\ agent_runs = 0
  /\ deps_args = NotCalled
  /\ backend_raw = [kind |-> "none"]
  /\ decision = NotCalled
  /\ formatted \in FormattedResults
  /\ ctx_deps = NotCalled
  /\ system_prompt = NotCalled
  /\ calls = <<>>
  /\ validation = NotCalled

NextFrames == YieldPartial \/ YieldComplete

SpecFrames == InitFrames /\ [][NextFrames]_vars

\* ------------------------------------------- calls served at the same time
\* The event loop runs the coroutines of several HTTP calls, switching at
\* their awaits and yields.  calls.client[i] is what client i sent and was
\* sent back, with the backend behaviour and the is_initialized its call
\* met; calls.locals[k] is the coroutine frame k: request_data and the
\* locals generate_stream() is suspended with.
ConcurrentBodies ==
  {[kind |-> "invalid"],
   Dict([policy |-> Absent, opposer_evidences |-> Absent,
         defender_evidences |-> Absent, user_query |-> Absent]),
   Dict([policy |-> Dict(MinimalPolicy),
         opposer_evidences |-> List(<<Dict(EvidenceA), Dict(EvidenceB)>>),
         defender_evidences |-> List(<<>>), user_query |-> Absent])}

ConcurrentBackends == {b \in Backends : b.kind = "error" \/ b.raw.confidence = <<7>>}

ConcurrentScripts == {sc \in Scripts : Len(sc.partials) <= 1}

NoEnv == [kind |-> "none"]

NoCall ==
  [route |-> "none", body |-> [kind |-> "none"], env |-> NoEnv, saw |-> FALSE,
   response |-> NoResponse, frames |-> <<>>, state |-> "idle"]

NoLocals ==
  [request_data |-> [kind |-> "none"], pos |-> "none", partials |-> <<>>,
   ending |-> "ok", formatted_result |-> Unbound]

\* Every call's locals on one shared object.
CallFrameShared(i) == 1

\* The frame that holds the locals of call i: its own.
CallFrame(i) == i

\* POST route: the route's coroutine starts and reads the body.  The
\* streaming route answers at once, with the StreamingResponse or, for a
\* body that is not JSON, with its HTTPException.
ReceiveAt(i, route, body) ==
  /\ calls.client[i].state = "idle"
  /\ calls' =
       [client |->
          [calls.client EXCEPT ![i] =
             [NoCall EXCEPT
                !.route = route, !.body = body,
                !.state = IF route = "/arbitrate/stream" /\ body.kind = "invalid"
                          THEN "done" ELSE "received",
                !.response =
                  IF route = "/arbitrate" THEN NoResponse
                  ELSE IF body.kind = "invalid"
                       THEN http_exception_handler(
                              HTTPException(500, "Arbitration streaming failed"))
                       ELSE [status |-> 200,
                             content |-> [media_type |-> "text/event-stream"]]]],
        locals |->
          [calls.locals EXCEPT ![CallFrame(i)] =
             [NoLocals EXCEPT
                !.request_data = body,
                !.pos = IF route = "/arbitrate" THEN "received"
                        ELSE IF body.kind = "invalid" THEN "closed" ELSE "created"]]]
  /\ UNCHANGED <<service_vars, decision_vars, prompt_vars, validation>>

\* arbitrate_query resumes and answers.
ProcessAt(i, backend) ==
  /\ calls.client[i].route = "/arbitrate"
  /\ calls.client[i].state = "received"
  /\ calls' =
       [calls EXCEPT
          !.client[i].response =
             arbitrate_query(is_initialized, calls.locals[CallFrame(i)].request_data,
                             backend).response,
          !.client[i].state = "done",
          !.client[i].env = backend,
          !.client[i].saw = is_initialized]
  /\ UNCHANGED <<service_vars, decision_vars, prompt_vars, validation>>

\* The streaming response of call i pulls its next chunk.
PullAt(i, script) ==
  /\ calls.client[i].route = "/arbitrate/stream"
  /\ calls.client[i].state = "received"
  /\ calls.locals[CallFrame(i)].pos \notin {"none", "received", "closed"}
  /\ \E l \in {calls.locals[CallFrame(i)]} :
       CASE l.pos = "created" ->
              \E s \in {StreamFirst(is_initialized, l.request_data, script)} :
                calls' =
                  [calls EXCEPT
                     !.client[i].frames = Append(@, s.frame),
                     !.client[i].env = script,
                     !.client[i].saw = is_initialized,
                     !.locals[CallFrame(i)] =
                        [l EXCEPT !.pos = s.pos, !.partials = s.partials,
                                  !.ending = script.ending,
                                  !.formatted_result = s.formatted_result]]
         [] l.pos = "partial" ->
              \E s \in {StreamLoop(l.partials, l.ending, l.formatted_result)} :
                calls' =
                  [calls EXCEPT
                     !.client[i].frames = Append(@, s.frame),
                     !.locals[CallFrame(i)] =
                        [l EXCEPT !.pos = s.pos, !.partials = s.partials,
                                  !.formatted_result = s.formatted_result]]
         [] OTHER ->
              calls' = [calls EXCEPT !.client[i].state = "done",
                                     !.locals[CallFrame(i)].pos = "closed"]
  /\ UNCHANGED <<service_vars, decision_vars, prompt_vars, validation>>

Receive ==
  \E i \in 1..MaxCalls, route \in {"/arbitrate", "/arbitrate/stream"},
     body \in ConcurrentBodies : ReceiveAt(i, route, body)

Process == \E i \in 1..MaxCalls, backend \in ConcurrentBackends : ProcessAt(i, backend)

Pull ==
  \E i \in 1..MaxCalls :
    \E script \in (IF calls.locals[CallFrame(i)].pos = "created" THEN ConcurrentScripts
                   ELSE {[partials |-> <<>>, ending |-> "ok"]}) :
      PullAt(i, script)

InitConcurrent ==
  /\ is_initialized = FALSE
  /\ request = NoRequest
  /\ response = NoResponse
  /\ stream = NoStream
  /\ frames = <<>>
  /\ agent_runs = 0
  /\ deps_args = NotCalled
  /\ backend_raw = [kind |-> "none"]
  /\ decision = NotCalled
  /\ formatted = NotCalled
  /\ ctx_deps = NotCalled
  /\ system_prompt = NotCalled
  /\ calls = [client |-> [i \in 1..MaxCalls |-> NoCall],
              locals |-> [k \in 1..MaxCalls |-> NoLocals]]
  /\ validation = NotCalled

NextConcurrent == Startup \/ Shutdown \/ Receive \/ Process \/ Pull

SpecConcurrent == InitConcurrent /\ [][NextConcurrent]_vars

\* ------------------------------ the loop of lines 99-104 on its own
\* What stream_output() can yield to the loop: validated decisions, and
\* objects that also carry the message attribute the formatter reads.
LoopOutputs ==
  PartialOutputs
    \cup {d \in FormatterInputs : d.confidence = 5 /\ d.reasoning = "because"}

\* The generator is inside `async with ... as stream`, at the head of its
\* `async for`, for a valid request to an initialized service; the engine's
\* stream will yield stream.partials and then end as stream.ending says.
InitLoop ==
  /\ is_initialized = TRUE
  /\ request = [route |-> "/arbitrate/stream", body |-> MinimalRequest]
  /\ response = [status |-> 200, content |-> [media_type |-> "text/event-stream"]]
  /\ \E p \in SeqsUpTo(LoopOutputs, MaxPartials), e \in {"ok", "error"} :
       stream = [pos |-> "partial", partials |-> p, ending |-> e,
                 formatted_result |-> Unbound]
  /\ frames = <<>>
  /\ agent_runs = 1
  /\ deps_args = DependencyArgs(MinimalRequest)
  /\ backend_raw = [kind |-> "none"]
  /\ decision = NotCalled
  /\ formatted = NotCalled
  /\ ctx_deps = NotCalled
  /\ system_prompt = NotCalled
  /\ calls = <<>>
  /\ validation = NotCalled

NextLoop == StreamPull

SpecLoop == InitLoop /\ [][NextLoop]_vars

\* ------------------------------------------------ validate_policy on its own
\* Policy dicts over every combination of well-formed, malformed and missing
\* fields.
ValidationDicts ==
  {PolicyOf(id, creator_id, name, description, created_at) :
     id \in {Missing, "P1", "{P1}", "not-a-uuid"},
     creator_id \in {Missing, "U1", "not-a-uuid"},
     name \in {Missing, "Remote Work Policy"},
     description \in {Missing, "All staff work remotely"},
     created_at \in {Missing, "2025-01-01 00:00:00", "yesterday"}}

\* The Policy instances those dicts construct.
PolicyObjects ==
  {[kind |-> "Policy", v |-> Policy(f).value] : f \in {g \in ValidationDicts : Policy(g).ok}}

\* What validate_policy can be handed: any JSON value, a policy dict, or a
\* Policy instance.
ValidationInputs ==
  PolicyInputs \cup {Dict(f) : f \in ValidationDicts} \cup PolicyObjects

\* services.py:221-245, called with policy_data.
ValidatePolicy ==
  /\ \E policy_data \in ValidationInputs :
       validation' = [policy_data |-> policy_data, result |-> validate_policy(policy_data)]
  /\ UNCHANGED <<service_vars, decision_vars, prompt_vars, calls>>

InitValidate ==
  /\ is_initialized = FALSE
  /\ request = NoRequest
  /\ response = NoResponse
  /\ stream = NoStream
  /\ frames = <<>>
  /\ agent_runs = 0
  /\ deps_args = NotCalled
  /\ backend_raw = [kind |-> "none"]
  /\ decision = NotCalled
  /\ formatted = NotCalled
  /\ ctx_deps = NotCalled
  /\ system_prompt = NotCalled
  /\ calls = <<>>
  /\ validation = NotCalled

NextValidate == Startup \/ Shutdown \/ ValidatePolicy

SpecValidate == InitValidate /\ [][NextValidate]_vars

\* ================================================================ claims
FrameType(fr) ==
  IF fr.prefix = "data: " /\ "type" \in DOMAIN fr.json THEN fr.json.type ELSE "none"

IsTerminal(fr) == FrameType(fr) \in {"complete", "error"}

TerminalFrames == {i \in 1..Len(frames) : IsTerminal(frames[i])}

\* The service was initialized when the call reached it: the call got as far
\* as _prepare_agent_dependencies.
ReachedPrepare == deps_args # NotCalled

ValidEvidenceField(field) ==
  \/ field.kind = "absent"
  \/ /\ field.kind = "list"
     /\ \A i \in 1..Len(field.items) :
          field.items[i].kind = "dict" /\ Evidence(field.items[i].f).ok

ValidRequest(body) ==
  /\ body.kind = "dict"
  /\ body.f.policy.kind = "dict" /\ Policy(body.f.policy.f).ok
  /\ ValidEvidenceField(body.f.opposer_evidences)
  /\ ValidEvidenceField(body.f.defender_evidences)

\* The ArbitrationDecisions a non-streaming response carries.
DecisionsIn(resp) ==
  IF resp.status = 200 /\ "result" \in DOMAIN resp.content
     /\ "arbitration_result" \in DOMAIN resp.content.result
  THEN 1 ELSE 0

\* C1: every stream has at most one terminal (complete or error) frame, a
\* terminal frame is the last frame sent, and a closed stream ends with
\* exactly one terminal frame.
C1_OneTerminalEventLast ==
  /\ Cardinality(TerminalFrames) <= 1
  /\ \A i \in TerminalFrames : i = Len(frames)
  /\ stream.pos = "closed" => /\ Cardinality(TerminalFrames) = 1
                              /\ IsTerminal(frames[Len(frames)])

C1_Witness ==
  /\ stream.pos = "closed"
  /\ Len(frames) = 1
  /\ FrameType(frames[1]) = "error"
  /\ ReachedPrepare

\* C2: a valid request to an initialized service gets exactly one
\* ArbitrationDecision from POST /arbitrate.
C2_ExactlyOneDecision ==
  (/\ request.route = "/arbitrate"
   /\ ValidRequest(request.body)
   /\ ReachedPrepare)
  => DecisionsIn(response) = 1

\* C3: the minimal request (valid policy of id, creator_id and name, empty
\* evidence lists, no user_query) is accepted by context assembly, reaches
\* the engine and is answered 200 / "success".
C3_MinimalRequestSucceeds ==
  (/\ request.route = "/arbitrate"
   /\ request.body = MinimalRequest
   /\ ReachedPrepare)
  => /\ response.status = 200
     /\ "status" \in DOMAIN response.content
     /\ response.content.status = "success"
     /\ agent_runs = 1

NoPolicyField(body) == body.kind = "dict" /\ body.f.policy = Absent

PolicyRequired == Raise("ValueError", "Policy data is required for arbitration")

\* C4: a request with no policy field never reaches the engine; context
\* assembly rejects it ("Policy data is required for arbitration"), POST
\* /arbitrate answers 500, and the stream is one error frame with that
\* message and nothing else.
C4_MissingPolicyRejected ==
  NoPolicyField(request.body) =>
    /\ agent_runs = 0
    /\ ReachedPrepare => deps_args = PolicyRequired
    /\ request.route = "/arbitrate" => response.status = 500
    /\ request.route = "/arbitrate/stream" =>
         /\ Len(frames) <= 1
         /\ \A i \in 1..Len(frames) : FrameType(frames[i]) = "error"
         /\ (ReachedPrepare /\ frames # <<>>) =>
              frames[1].json.message = "Policy data is required for arbitration"
         /\ stream.pos = "closed" => Len(frames) = 1

C4_Witness ==
  /\ NoPolicyField(request.body)
  /\ request.route = "/arbitrate/stream"
  /\ ReachedPrepare
  /\ stream.pos = "closed"
  /\ frames = <<ServiceErrorFrame(PolicyRequired)>>

FailedContextAssembly ==
  /\ request.route = "/arbitrate"
  /\ ReachedPrepare
  /\ ~deps_args.ok

\* C5 (as stated): a request that fails validation in context assembly is
\* answered by POST /arbitrate with a client-error (4xx) status.
C5_ClientErrorStatus ==
  FailedContextAssembly => response.status \in 400..499

\* C5 (amended): a request that fails validation in context assembly is
\* answered by POST /arbitrate with status 500, detail "Arbitration
\* processing failed" and error code HTTP_500.
C5_ServerErrorStatus ==
  FailedContextAssembly =>
    /\ response.status = 500
    /\ response.content.detail = "Arbitration processing failed"
    /\ response.content.error_code = "HTTP_500"

C5_Witness ==
  /\ FailedContextAssembly
  /\ deps_args.exc = "ValidationError"
  /\ response.status = 500

MalformedPolicy(body) ==
  /\ body.kind = "dict"
  /\ ~(body.f.policy.kind = "dict" /\ Policy(body.f.policy.f).ok)

IsInstance(obj, class) == HasAttr(obj, "class") /\ obj.class = class

\* C6: context assembly hands the ArbiterDependency constructor validated
\* inputs only: a request whose policy is absent or malformed fails with a
\* validation error, and the arguments built are a Policy and lists of
\* Evidence.
C6_OnlyValidatedInputs ==
  ReachedPrepare =>
    /\ MalformedPolicy(request.body) =>
         ~deps_args.ok /\ deps_args.exc \in {"ValueError", "ValidationError"}
    /\ deps_args.ok =>
         /\ IsInstance(deps_args.value.policy, "Policy")
         /\ \A i \in 1..Len(deps_args.value.opposer_evidences) :
              IsInstance(deps_args.value.opposer_evidences[i], "Evidence")
         /\ \A i \in 1..Len(deps_args.value.defender_evidences) :
              IsInstance(deps_args.value.defender_evidences[i], "Evidence")

OutOfRange(c) == Len(c) = 1 /\ (c[1] < 0 \/ c[1] > 10)

\* C7: a validated ArbitrationDecision has the confidence the backend gave,
\* within [0.0, 1.0]; a backend output whose confidence is outside the range
\* fails validation (it is not clamped), and a formatted result carries a
\* confidence_score in the range.
C7_ConfidenceInRange ==
  /\ decision.ok =>
       /\ decision.value.confidence \in 0..10
       /\ backend_raw.confidence = <<decision.value.confidence>>
  /\ (decision # NotCalled /\ OutOfRange(backend_raw.confidence)) =>
       /\ ~decision.ok
       /\ decision.exc = "ValidationError"
       /\ formatted = NotCalled
  /\ formatted.ok => formatted.value.arbitration_result.confidence_score \in 0..10

\* The backend output is well formed but for its confidence of 1.1, and it
\* was rejected.
C7_Witness ==
  /\ backend_raw.confidence = <<11>>
  /\ backend_raw.created_at = Missing
  /\ backend_raw.id = "D1" /\ backend_raw.opposer_id = "U1"
  /\ backend_raw.decision = "verdict" /\ backend_raw.decision_type = "approve_opposer"
  /\ decision # NotCalled
  /\ ~decision.ok

FiveDecisionTypes ==
  {"approve_opposer", "reject_opposer", "needs_more_info",
   "request_opposer_evidence", "request_defender_evidence"}

OtherDecisionType ==
  /\ decision # NotCalled
  /\ backend_raw.decision_type \notin FiveDecisionTypes

TestValidDecisionTypes ==
  {"approve_opposer", "reject_opposer", "clearify",
   "request_opposer_evidence", "request_defender_evidence"}

\* C9: for every decision type the engine can return, the decision_type
\* string of the response is one the test accepts.
C9_DecisionTypeAcceptedByTest ==
  decision.ok =>
    DecisionTypeValue(decision.value.decision_type) \in TestValidDecisionTypes

TenFields ==
  {"decision_id", "policy_id", "opposer_id", "defender_id", "decision_type",
   "decision", "message", "confidence_score", "reasoning", "created_at"}

\* C10: formatting a validated ArbitrationDecision gives arbitration_result
\* and metadata, arbitration_result holding the ten fields, each the
\* corresponding field of the decision.
C10_TenFieldsFromDecision ==
  (decision.ok /\ formatted # NotCalled) =>
    /\ formatted.ok
    /\ DOMAIN formatted.value = {"arbitration_result", "metadata"}
    /\ DOMAIN formatted.value.arbitration_result = TenFields
    /\ formatted.value.arbitration_result.decision_id = decision.value.id
    /\ formatted.value.arbitration_result.policy_id = decision.value.policy_id
    /\ formatted.value.arbitration_result.opposer_id = decision.value.opposer_id
    /\ formatted.value.arbitration_result.defender_id = decision.value.defender_id
    /\ formatted.value.arbitration_result.decision_type
         = DecisionTypeValue(decision.value.decision_type)
    /\ formatted.value.arbitration_result.decision = decision.value.decision
    /\ HasAttr(decision.value, "message")
    /\ formatted.value.arbitration_result.message = decision.value.message
    /\ formatted.value.arbitration_result.confidence_score = decision.value.confidence
    /\ formatted.value.arbitration_result.reasoning = decision.value.reasoning
    /\ formatted.value.arbitration_result.created_at = decision.value.created_at

\* C11: the result formatter is total over well-formed input: formatting a
\* validated ArbitrationDecision returns a formatted result and never fails.
C11_FormatterTotal ==
  (decision.ok /\ formatted # NotCalled) =>
    /\ formatted.ok
    /\ "arbitration_result" \in DOMAIN formatted.value

\* C13: every error frame on the stream, from the service's handler or from
\* the route's generate_stream wrapper, carries type "error", a message and
\* a timestamp.
C13_ErrorFramesCarryTimestamp ==
  \A i \in 1..Len(frames) :
    FrameType(frames[i]) = "error" =>
      {"type", "message", "timestamp"} \subseteq DOMAIN frames[i].json

\* C14: for a valid request served while the reasoning backend succeeds, the
\* finished stream has at least one data frame, ends with the frame
\* {"type": "complete", "message": "done", "data": ...} and holds no error
\* frame.
C14_StreamEndsWithComplete ==
  (/\ request.route = "/arbitrate/stream"
   /\ ValidRequest(request.body)
   /\ ReachedPrepare
   /\ stream.pos = "closed"
   /\ stream.ending = "ok")
  => /\ Len(frames) >= 1
     /\ FrameType(frames[Len(frames)]) = "complete"
     /\ frames[Len(frames)].json.message = "done"
     /\ \A i \in 1..Len(frames) : FrameType(frames[i]) # "error"

Submitted(field) == IF field.kind = "list" THEN field.items ELSE <<>>

\* Each submitted evidence is in the list at the place it was submitted at.
SameOrder(evidences, submitted) ==
  /\ Len(evidences) = Len(submitted)
  /\ \A i \in 1..Len(submitted) :
       /\ IsInstance(evidences[i], "Evidence")
       /\ evidences[i].id = UUIDCanonical(submitted[i].f.id)
       /\ evidences[i].content = submitted[i].f.content

\* C15: the evidence of a valid request reaches the engine in submission
\* order: the engine is run with lists that hold, side by side and place by
\* place, the evidences the request submitted, none dropped, duplicated or
\* moved to the other side.
C15_EvidenceOrderPreserved ==
  (ValidRequest(request.body) /\ ReachedPrepare) =>
    /\ agent_runs = 1
    /\ deps_args.ok
    /\ SameOrder(deps_args.value.opposer_evidences,
                 Submitted(request.body.f.opposer_evidences))
    /\ SameOrder(deps_args.value.defender_evidences,
                 Submitted(request.body.f.defender_evidences))

SectionOrder == <<"rubric", "policy", "defender_evidence", "opposer_evidence", "context">>

\* C16: the system prompt can be assembled for every dependency object, one
\* with no conversation history included, and holds its sections in the
\* order rubric, policy, defender evidence, opposer evidence, history.
C16_SectionsInFixedOrder ==
  system_prompt # NotCalled =>
    /\ system_prompt.ok
    /\ [i \in 1..Len(system_prompt.value) |-> system_prompt.value[i].section] = SectionOrder

FrameTypes == {"partial", "complete", "error"}

\* C12: every chunk of the stream, a partial one included, is `data: `
\* followed by a JSON object whose type is partial, complete or error, and a
\* partial chunk is {"type": "partial", "data": the formatted decision}.
C12_EveryFrameIsDataJson ==
  \A i \in 1..Len(frames) :
    /\ frames[i].prefix = "data: "
    /\ "type" \in DOMAIN frames[i].json
    /\ frames[i].json.type \in FrameTypes
    /\ frames[i].json.type = "partial" =>
         /\ "data" \in DOMAIN frames[i].json
         /\ formatted.ok => frames[i].json.data = formatted.value

\* The chunks after the first that a stream sends when it runs alone.
RECURSIVE LoopAlone(_, _, _)
LoopAlone(partials, ending, formatted_result) ==
  LET Rest(s) ==
        <<s.frame>> \o (IF s.pos = "partial"
                        THEN LoopAlone(s.partials, ending, s.formatted_result)
                        ELSE <<>>)
  IN Rest(StreamLoop(partials, ending, formatted_result))

\* The chunks a streaming call sends when it is the only call.
StreamAlone(initialized, body, script) ==
  LET Rest(s) ==
        <<s.frame>> \o (IF s.pos = "partial"
                        THEN LoopAlone(s.partials, script.ending, s.formatted_result)
                        ELSE <<>>)
  IN Rest(StreamFirst(initialized, body, script))

IsPrefix(p, q) == Len(p) <= Len(q) /\ \A i \in 1..Len(p) : p[i] = q[i]

\* What call c was answered is what the same call is answered alone.
AsAlone(c) ==
  /\ (c.route = "/arbitrate" /\ c.state = "done") =>
       c.response = arbitrate_query(c.saw, c.body, c.env).response
  /\ (c.route = "/arbitrate/stream" /\ c.body.kind = "invalid") =>
       /\ c.frames = <<>>
       /\ c.response = http_exception_handler(
                         HTTPException(500, "Arbitration streaming failed"))
  /\ (c.route = "/arbitrate/stream" /\ c.body.kind # "invalid") =>
       /\ c.env = NoEnv => c.frames = <<>>
       /\ c.env # NoEnv =>
            /\ c.frames # <<>>
            /\ IsPrefix(c.frames, StreamAlone(c.saw, c.body, c.env))
            /\ c.state = "done" => c.frames = StreamAlone(c.saw, c.body, c.env)

\* C20: under every interleaving of the steps of the calls served at the
\* same time, the chunks each call has been sent and its final response are
\* those the call gets when it runs alone.
C20_CallsDoNotInterfere ==
  \A i \in 1..MaxCalls : AsAlone(calls.client[i])

\* Two calls with different bodies overlap: the second was received and
\* served its chunk while the first was suspended, and the first then
\* finished.
C20_Witness ==
  /\ calls.client[1].state = "done"
  /\ calls.client[1].route = "/arbitrate/stream"
  /\ calls.client[1].frames # <<>>
  /\ calls.client[2].state = "received"
  /\ calls.client[2].route = "/arbitrate/stream"
  /\ calls.client[2].frames # <<>>
  /\ calls.client[1].body # calls.client[2].body
  /\ calls.client[1].frames # calls.client[2].frames

NonTerminalTypes ==
  {"needs_more_info", "request_opposer_evidence", "request_defender_evidence"}

\* C23: the one ArbitrationDecision an engine invocation returns is handed
\* back to the caller as it is when its type is NEEDS_MORE_INFO,
\* REQUEST_OPPOSER_EVIDENCE or REQUEST_DEFENDER_EVIDENCE: the result the
\* service builds from it carries that decision and that type.
C23_NonTerminalDecisionReturned ==
  (/\ decision.ok
   /\ DecisionTypeValue(decision.value.decision_type) \in NonTerminalTypes
   /\ formatted # NotCalled)
  => /\ formatted.ok
     /\ formatted.value.arbitration_result.decision_type
          = DecisionTypeValue(decision.value.decision_type)
     /\ formatted.value.arbitration_result.decision_id = decision.value.id

NotInitialized == "Service not initialized"

\* The step in which the route calls process_arbitration.
CallsProcessArbitration ==
  /\ request = NoRequest
  /\ request'.route = "/arbitrate"
  /\ request'.body.kind # "invalid"

\* The step in which generate_stream() calls process_arbitration_stream and
\* takes its first chunk.
CallsProcessArbitrationStream == stream.pos = "created" /\ stream'.pos # "created"

\* C26: a call of process_arbitration or process_arbitration_stream made
\* while the service is not initialized (before initialize or after
\* cleanup) fails with "Service not initialized" without preparing
\* dependencies or calling the agent, the stream being exactly one error
\* frame; a call made while it is initialized passes the check.
C26_InitializedGuardsEngine ==
  [][/\ CallsProcessArbitration =>
          IF is_initialized
          THEN deps_args' # NotCalled
          ELSE /\ deps_args' = NotCalled
               /\ agent_runs' = 0
               /\ response'.status = 500
     /\ CallsProcessArbitrationStream =>
          IF is_initialized
          THEN /\ deps_args' # NotCalled
               /\ stream'.pos # "wrapper_error"
          ELSE /\ deps_args' = NotCalled
               /\ agent_runs' = 0
               /\ Len(frames') = 1
               /\ FrameType(frames'[1]) = "error"
               /\ frames'[1].json.message = NotInitialized
               /\ stream'.pos = "wrapper_error"
     /\ (stream.pos = "wrapper_error" /\ stream' # stream) =>
          /\ stream'.pos = "closed"
          /\ frames' = frames
    ]_vars

\* A stream called before initialize (or after cleanup) has ended: one
\* error frame, nothing prepared.
C26_Witness ==
  /\ request.route = "/arbitrate/stream"
  /\ stream.pos = "closed"
  /\ Len(frames) = 1
  /\ frames[1].json.message = NotInitialized
  /\ deps_args = NotCalled
  /\ agent_runs = 0

IsPartialChunk(fr) == fr.prefix = "'type': 'partial', data: "

\* C27: the data of a complete frame is the data of the partial chunk sent
\* just before it, the last one; a finished stream that sent no partial
\* chunk does not end with a complete frame but with an error frame.
C27_CompleteRepeatsLastPartial ==
  /\ \A i \in 1..Len(frames) :
       FrameType(frames[i]) = "complete" =>
         /\ i > 1
         /\ i = Len(frames)
         /\ IsPartialChunk(frames[i - 1])
         /\ frames[i].json.data = frames[i - 1].json
  /\ (/\ stream.pos = "closed"
      /\ \A i \in 1..Len(frames) : ~IsPartialChunk(frames[i])) =>
       /\ Len(frames) = 1
       /\ FrameType(frames[1]) = "error"

\* A complete frame after two partial chunks that differ.
C27_Witness ==
  /\ Len(frames) = 3
  /\ IsPartialChunk(frames[1])
  /\ IsPartialChunk(frames[2])
  /\ frames[1].json # frames[2].json
  /\ FrameType(frames[3]) = "complete"
  /\ stream.pos = "closed"

\* A step of a call: something the call holds changes.
CallStep ==
  <<request, response, stream, frames, agent_runs, deps_args>>'
    # <<request, response, stream, frames, agent_runs, deps_args>>

\* C28: no step of a call, failed or not, changes is_initialized or the
\* request data it was given, and when the call is over the service holds
\* nothing of it, so the next call meets the service as if the failed one
\* had not been made.
C28_FailedCallChangesNothing ==
  [][/\ CallStep => is_initialized' = is_initialized
     /\ (request # NoRequest /\ request' # NoRequest) => request' = request
     /\ (CallStep /\ request' = NoRequest) =>
          /\ response' = NoResponse
          /\ stream' = NoStream
          /\ frames' = <<>>
          /\ agent_runs' = 0
          /\ deps_args' = NotCalled
    ]_vars

\* A call has failed in context assembly and the service is still
\* initialized.
C28_Witness ==
  /\ request.route = "/arbitrate"
  /\ NoPolicyField(request.body)
  /\ ReachedPrepare
  /\ response.status = 500
  /\ is_initialized

\* C29: validate_policy never raises, and returns True exactly when it was
\* given a Policy instance or a dict from which Policy(**d) constructs, in
\* whatever state the service is.
C29_ValidatePolicyTotal ==
  validation # NotCalled =>
    /\ validation.result.ok
    /\ validation.result.value =
         (\/ validation.policy_data.kind = "Policy"
          \/ /\ validation.policy_data.kind = "dict"
             /\ Policy(validation.policy_data.f).ok)

\* validate_policy was given a dict that fails Policy validation, on a
\* service that was never initialized, and returned False.
C29_Witness ==
  /\ validation # NotCalled
  /\ ~is_initialized
  /\ validation.policy_data.kind = "dict"
  /\ ~Policy(validation.policy_data.f).ok
  /\ validation.result = Return(FALSE)

====
